---- MODULE Spec2Model ----
(***************************************************************************)
(* The function builder of the goscript code generator                     *)
(* (codegen/src/context.rs): symbolic addresses (Addr, VirtualAddr), the   *)
(* intermediate instruction (InterInst), the expression context (ExprCtx)  *)
(* and the per-function builder (FuncCtx) with its finalization            *)
(* (into_runtime_func).                                                    *)
(*                                                                         *)
(* Code indices are 0-based in the source; code[i] of the source is        *)
(* code[i + 1] here.  A Rust panic (unreachable!, assert_eq!, unwrap on    *)
(* None, HashMap index on a missing key) ends the build: phase becomes     *)
(* "panicked" and nothing more runs.                                       *)
(***************************************************************************)
EXTENDS Integers, Sequences, FiniteSets, TLC

\* ---------------------------------------------------------------- bounds
\* builder operations performed on one FuncCtx before it is finalized
MaxOps == 2
\* entity-binding operations performed when only those are called
MaxBindOps == 3
\* builder operations before a trampoline is executed
MaxVmOps == 2
\* init functions of an imported package
MaxInits == 2

\* ------------------------------------------------------- input universes
\* type-checker object keys (TCObjKey) naming entities
ObjKeys == {"x", "y"}
\* type-checker object keys naming labels
LabelKeys == {"L"}
\* package keys
PackageKeys == {"P"}
\* identifier keys
IdentKeys == {"f", "g"}
\* capture descriptors
ValueDescs == {"uvA", "uvB"}

\* ------------------------------------------------------ Option<T> values
None == [tag |-> "None"]
Some(v) == [tag |-> "Some", v |-> v]

\* source positions handed to the emitters
Positions == {None, Some(3)}

\* ------------------------------------------------------------- GosValue
new_int32(n) == [tag |-> "int32", n |-> n]
new_package(p) == [tag |-> "package", pkg |-> p]

\* ----------------------------------------------------------------- Addr
Const(i) == [tag |-> "Const", i |-> i]
LocalVar(i) == [tag |-> "LocalVar", i |-> i]
Regsiter(i) == [tag |-> "Regsiter", i |-> i]
Imm(i) == [tag |-> "Imm", i |-> i]
PkgMemberIndex(p, id) == [tag |-> "PkgMemberIndex", pkg |-> p, ident |-> id]
Label(k) == [tag |-> "Label", key |-> k]
Void == [tag |-> "Void"]

\* ---------------------------------------------------------- VirtualAddr
Direct(a) == [tag |-> "Direct", a |-> a]
UpValue(a) == [tag |-> "UpValue", a |-> a]
SliceEntry(a, b) == [tag |-> "SliceEntry", a |-> a, b |-> b]
ArrayEntry(a, b) == [tag |-> "ArrayEntry", a |-> a, b |-> b]
MapEntry(a, b) == [tag |-> "MapEntry", a |-> a, b |-> b]
StructMember(a, b) == [tag |-> "StructMember", a |-> a, b |-> b]
StructEmbedded(a, b) == [tag |-> "StructEmbedded", a |-> a, b |-> b]
PackageMember(a, b) == [tag |-> "PackageMember", a |-> a, b |-> b]
Pointee(a) == [tag |-> "Pointee", a |-> a]
Blank == [tag |-> "Blank"]
ZeroValue == [tag |-> "ZeroValue"]

\* is_blank answering for the wrong variant
is_blank_zero_value(va) == va.tag = "ZeroValue"

\* VirtualAddr::is_blank
is_blank(va) == va.tag = "Blank"

\* ------------------------------------------------------------- ExprMode
Load == [tag |-> "Load"]
Assign(va) == [tag |-> "Assign", va |-> va]

\* ---------------------------------------------- results of an operation
\* a call that returned nothing
Unit == [tag |-> "unit"]
\* a call that panicked instead of returning
Panicked == [tag |-> "panic"]
\* a call that returned a count
Count(n) == [tag |-> "usize", n |-> n]
\* get_dest's pair
Dest(a, va) == [tag |-> "dest", a |-> a, va |-> va]

\* ------------------------------------------------------ external tables
\* exported-member table of each package: packages[key].get_member_index
PkgMembers == [p \in PackageKeys |-> [id \in {"f"} |-> 5]]

\* the result of resolving one operand: an OpIndex, or a panic
Ok(v) == [ok |-> TRUE, v |-> v]
Fatal == [ok |-> FALSE, v |-> 0]

\* into_index with one slip: "label" measures the offset from the jump
\* itself, "reg" forgets the register base, "const" encodes a constant as -i
slipped_index(self, reg_base, inst_index, labels, slip) ==
    CASE self.tag = "Const" ->
            Ok(IF slip = "const" THEN -self.i ELSE -self.i - 1)
      [] self.tag = "LocalVar" -> Ok(self.i)
      [] self.tag = "Regsiter" ->
            Ok(IF slip = "reg" THEN self.i ELSE reg_base + self.i)
      [] self.tag = "PkgMemberIndex" ->
            IF self.pkg \in DOMAIN PkgMembers
                /\ self.ident \in DOMAIN PkgMembers[self.pkg]
            THEN Ok(PkgMembers[self.pkg][self.ident])
            ELSE Fatal
      [] self.tag = "Label" ->
            IF self.key \in DOMAIN labels
            THEN Ok(IF slip = "label"
                    THEN labels[self.key] - inst_index
                    ELSE labels[self.key] - inst_index - 1)
            ELSE Fatal
      [] OTHER -> Fatal

into_index_from_jump(self, reg_base, inst_index, labels) ==
    slipped_index(self, reg_base, inst_index, labels, "label")

into_index_no_base(self, reg_base, inst_index, labels) ==
    slipped_index(self, reg_base, inst_index, labels, "reg")

into_index_const_neg(self, reg_base, inst_index, labels) ==
    slipped_index(self, reg_base, inst_index, labels, "const")

\* Addr::into_index
into_index(self, reg_base, inst_index, labels) ==
    CASE self.tag = "Const" -> Ok(-self.i - 1)
      [] self.tag = "LocalVar" -> Ok(self.i)
      [] self.tag = "Regsiter" -> Ok(reg_base + self.i)
      [] self.tag = "PkgMemberIndex" ->
            IF self.pkg \in DOMAIN PkgMembers
                /\ self.ident \in DOMAIN PkgMembers[self.pkg]
            THEN Ok(PkgMembers[self.pkg][self.ident])
            ELSE Fatal
      [] self.tag = "Label" ->
            IF self.key \in DOMAIN labels
            THEN Ok(labels[self.key] - inst_index - 1)
            ELSE Fatal
      [] OTHER -> Fatal

\* ------------------------------------------------------------ InterInst
with_op_t_index(op, t0, t1, d, s0, s1) ==
    [op0 |-> op, op1 |-> "VOID",
     t0 |-> IF t0 = None THEN "Void" ELSE t0.v,
     t1 |-> IF t1 = None THEN "Void" ELSE t1.v,
     d |-> d, s0 |-> s0, s1 |-> s1]

with_op(op) ==
    [op0 |-> op, op1 |-> "VOID", t0 |-> "Void", t1 |-> "Void",
     d |-> Void, s0 |-> Void, s1 |-> Void]

with_op_index(op, d, s0, s1) == with_op_t_index(op, None, None, d, s0, s1)

with_op_t(op, t0, t1) == with_op_t_index(op, t0, t1, Void, Void, Void)

\* InterInst::into_runtime_inst: the three operands are resolved in the
\* order d, s0, s1; the instruction exists only if none of them panicked
into_runtime_inst(self, reg_base, inst_index, labels) ==
    LET d == into_index(self.d, reg_base, inst_index, labels)
        s0 == into_index(self.s0, reg_base, inst_index, labels)
        s1 == into_index(self.s1, reg_base, inst_index, labels)
    IN  [ok |-> d.ok /\ s0.ok /\ s1.ok,
         inst |-> [op0 |-> self.op0, op1 |-> self.op1,
                   t0 |-> self.t0, t1 |-> self.t1,
                   d |-> d.v, s0 |-> s0.v, s1 |-> s1.v]]

\* --------------------------------------------------- constant pool (Consts)
\* Consts::add_const interns a value: the index of the value in the pool,
\* appended when it is not there yet
pool_add_const(pool, cst) ==
    IF \E i \in 1..Len(pool) : pool[i] = cst
    THEN [pool |-> pool,
          idx |-> (CHOOSE i \in 1..Len(pool) : pool[i] = cst) - 1]
    ELSE [pool |-> Append(pool, cst), idx |-> Len(pool)]

\* pools the shared Consts may hold when a FuncCtx is created
ConstPools == {<<new_int32(7), new_int32(1)>>}

\* ------------------------------------------------------------------ state
VARIABLES
    \* FuncCtx
    max_reg_num, stack_temp_types, code, pos, up_ptrs, local_zeros,
    entities, uv_entities, local_alloc,
    \* the Consts the FuncCtx refers to
    consts,
    \* ExprCtx
    cur_reg, mode, load_addr,
    \* the function record vmo.functions[f_key]
    func_code, func_pos, func_up_ptrs, func_local_zeros,
    func_stack_temp_types,
    \* "building", "done" (into_runtime_func returned), "panicked",
    \* "executing" (the code was handed to the machine)
    phase,
    \* number of builder operations performed, and how many may be
    nops, budget,
    \* history: number of add_local calls that returned, and of those that
    \* supplied a zero value and type
    n_add_local, n_zero_val,
    \* the last operation called with its arguments, and what it returned
    last, ret,
    \* the machine executing an import trampoline of the code
    vm

fctx == <<max_reg_num, stack_temp_types, code, pos, up_ptrs, local_zeros,
          entities, uv_entities, local_alloc>>
ectx == <<cur_reg, mode, load_addr>>
frec == <<func_code, func_pos, func_up_ptrs, func_local_zeros,
          func_stack_temp_types>>
hist == <<n_add_local, n_zero_val>>
vars == <<fctx, consts, ectx, frec, phase, nops, budget, hist, last, ret,
          vm>>

\* no machine is executing the code
VmOff == [on |-> FALSE]

\* the empty HashMap
EmptyMap == [k \in {} |-> Void]

\* HashMap::insert
insert(m, k, v) == (k :> v) @@ m

\* (init_reg, mode) pairs an ExprCtx is constructed with; an Assign target
\* refers to temporaries of the enclosing expression
ExprCtxInits ==
    {[init_reg |-> 0, mode |-> Load],
     [init_reg |-> 1, mode |-> Assign(Direct(Regsiter(0)))],
     [init_reg |-> 1, mode |-> Assign(Pointee(Regsiter(0)))]}

\* FuncCtx::new, ExprCtx::new and a fresh function record
InitWith(b) ==
    /\ max_reg_num = 0
    /\ stack_temp_types = << >>
    /\ code = << >>
    /\ pos = << >>
    /\ up_ptrs = << >>
    /\ local_zeros = << >>
    /\ entities = EmptyMap
    /\ uv_entities = EmptyMap
    /\ local_alloc = 0
    /\ consts \in ConstPools
    /\ \E e \in ExprCtxInits :
          /\ cur_reg = e.init_reg
          /\ mode = e.mode
    /\ load_addr = Void
    /\ func_code = << >>
    /\ func_pos = << >>
    /\ func_up_ptrs = << >>
    /\ func_local_zeros = << >>
    /\ func_stack_temp_types = << >>
    /\ phase = "building"
    /\ nops = 0
    /\ budget = b
    /\ n_add_local = 0
    /\ n_zero_val = 0
    /\ last = [op |-> "new"]
    /\ ret = Unit
    /\ vm = VmOff

Init == InitWith(MaxOps)

InitBind == InitWith(MaxBindOps)

InitVm == InitWith(MaxVmOps)

\* a builder operation may run
Building == phase = "building" /\ nops < budget

\* bookkeeping of a call that returned r
Returned(call, r) ==
    /\ last' = call
    /\ ret' = r
    /\ nops' = nops + 1
    /\ UNCHANGED <<phase, budget, vm>>

\* bookkeeping of a call that panicked
Panics(call) ==
    /\ last' = call
    /\ ret' = Panicked
    /\ nops' = nops + 1
    /\ phase' = "panicked"
    /\ UNCHANGED <<budget, vm>>

\* ------------------------------------------------- FuncCtx entity binding
\* FuncCtx::add_const_var
AddConstVar(entity, cst) ==
    LET r == pool_add_const(consts, cst)
        addr == Const(r.idx)
        call == [op |-> "add_const_var", entity |-> entity, cst |-> cst]
    IN  /\ Building
        /\ consts' = r.pool
        /\ entities' = insert(entities, entity, addr)
        /\ IF entity \in DOMAIN entities
           THEN Panics(call)
           ELSE Returned(call, Direct(addr))
        /\ UNCHANGED <<max_reg_num, stack_temp_types, code, pos, up_ptrs,
                       local_zeros, uv_entities, local_alloc, ectx, frec, hist>>

\* add_local without the assert_eq! on the old binding
add_local_rebinding(s, entity, zero_val_type) ==
    LET addr == LocalVar(s.local_alloc)
    IN  [entities |-> IF entity = None THEN s.entities
                      ELSE insert(s.entities, entity.v, addr),
         local_alloc |-> s.local_alloc + 1,
         local_zeros |->
             IF zero_val_type = None THEN s.local_zeros
             ELSE Append(s.local_zeros, zero_val_type.v.zero),
         stack_temp_types |->
             IF zero_val_type = None THEN s.stack_temp_types
             ELSE Append(s.stack_temp_types, zero_val_type.v.typ),
         calls |-> s.calls + 1,
         zeros |-> IF zero_val_type = None THEN s.zeros ELSE s.zeros + 1,
         ok |-> TRUE,
         ret |-> Direct(addr)]

\* add_local pushing the zero value without its type
add_local_zero_only(s, entity, zero_val_type) ==
    LET addr == LocalVar(s.local_alloc)
        ents == IF entity = None THEN s.entities
                ELSE insert(s.entities, entity.v, addr)
    IN  IF entity # None /\ entity.v \in DOMAIN s.entities
        THEN [s EXCEPT !.entities = ents, !.ok = FALSE]
        ELSE [entities |-> ents,
              local_alloc |-> s.local_alloc + 1,
              local_zeros |->
                  IF zero_val_type = None THEN s.local_zeros
                  ELSE Append(s.local_zeros, zero_val_type.v.zero),
              stack_temp_types |-> s.stack_temp_types,
              calls |-> s.calls + 1,
              zeros |-> IF zero_val_type = None THEN s.zeros
                        ELSE s.zeros + 1,
              ok |-> TRUE,
              ret |-> Direct(addr)]

\* FuncCtx::add_local on the fields it touches; ok is FALSE when the
\* assert_eq! on the old binding panicked
add_local(s, entity, zero_val_type) ==
    LET addr == LocalVar(s.local_alloc)
        ents == IF entity = None THEN s.entities
                ELSE insert(s.entities, entity.v, addr)
    IN  IF entity # None /\ entity.v \in DOMAIN s.entities
        THEN [s EXCEPT !.entities = ents, !.ok = FALSE]
        ELSE [entities |-> ents,
              local_alloc |-> s.local_alloc + 1,
              local_zeros |->
                  IF zero_val_type = None THEN s.local_zeros
                  ELSE Append(s.local_zeros, zero_val_type.v.zero),
              stack_temp_types |->
                  IF zero_val_type = None THEN s.stack_temp_types
                  ELSE Append(s.stack_temp_types, zero_val_type.v.typ),
              calls |-> s.calls + 1,
              zeros |-> IF zero_val_type = None THEN s.zeros
                        ELSE s.zeros + 1,
              ok |-> TRUE,
              ret |-> Direct(addr)]

\* the fields of the FuncCtx add_local works on
LocalState ==
    [entities |-> entities, local_alloc |-> local_alloc,
     local_zeros |-> local_zeros, stack_temp_types |-> stack_temp_types,
     calls |-> n_add_local, zeros |-> n_zero_val, ok |-> TRUE,
     ret |-> Unit]

\* (zero value, type) pairs of locals that need runtime initialization
ZeroValTypes == {None, Some([zero |-> new_int32(0), typ |-> "Int32"])}

\* FuncCtx::add_local
AddLocal(entity, zero_val_type) ==
    LET s == add_local(LocalState, entity, zero_val_type)
        call == [op |-> "add_local", entity |-> entity,
                 zero_val_type |-> zero_val_type]
    IN  /\ Building
        /\ entities' = s.entities
        /\ local_alloc' = s.local_alloc
        /\ local_zeros' = s.local_zeros
        /\ stack_temp_types' = s.stack_temp_types
        /\ n_add_local' = s.calls
        /\ n_zero_val' = s.zeros
        /\ IF s.ok THEN Returned(call, s.ret) ELSE Panics(call)
        /\ UNCHANGED <<max_reg_num, code, pos, up_ptrs, uv_entities,
                       consts, ectx, frec>>

\* add_upvalue without the lookup in uv_entities
AddUpvaluePushing(entity, uv) ==
    LET call == [op |-> "add_upvalue", entity |-> entity, uv |-> uv]
        et == Imm(Len(up_ptrs) + 1 - 1)
    IN  /\ Building
        /\ up_ptrs' = Append(up_ptrs, uv)
        /\ uv_entities' = insert(uv_entities, entity, et)
        /\ Returned(call, UpValue(et))
        /\ UNCHANGED <<max_reg_num, stack_temp_types, code, pos,
                       local_zeros, entities, local_alloc, consts, ectx,
                       frec, hist>>

\* add_upvalue taking the length of up_ptrs for the slot
AddUpvalueSlotLen(entity, uv) ==
    LET call == [op |-> "add_upvalue", entity |-> entity, uv |-> uv]
    IN  /\ Building
        /\ IF entity \in DOMAIN uv_entities
           THEN /\ Returned(call, UpValue(uv_entities[entity]))
                /\ UNCHANGED <<up_ptrs, uv_entities>>
           ELSE LET et == Imm(Len(up_ptrs) + 1)
                IN  /\ up_ptrs' = Append(up_ptrs, uv)
                    /\ uv_entities' = insert(uv_entities, entity, et)
                    /\ Returned(call, UpValue(et))
        /\ UNCHANGED <<max_reg_num, stack_temp_types, code, pos,
                       local_zeros, entities, local_alloc, consts, ectx,
                       frec, hist>>

\* FuncCtx::add_upvalue
AddUpvalue(entity, uv) ==
    LET call == [op |-> "add_upvalue", entity |-> entity, uv |-> uv]
    IN  /\ Building
        /\ IF entity \in DOMAIN uv_entities
           THEN /\ Returned(call, UpValue(uv_entities[entity]))
                /\ UNCHANGED <<up_ptrs, uv_entities>>
           ELSE LET et == Imm(Len(up_ptrs) + 1 - 1)
                IN  /\ up_ptrs' = Append(up_ptrs, uv)
                    /\ uv_entities' = insert(uv_entities, entity, et)
                    /\ Returned(call, UpValue(et))
        /\ UNCHANGED <<max_reg_num, stack_temp_types, code, pos,
                       local_zeros, entities, local_alloc, consts, ectx,
                       frec, hist>>

\* TypeLookup::object_def: the object a defining identifier declares
object_def == [n \in {"a", "b"} |-> IF n = "a" THEN "x" ELSE "y"]

\* parameter lists: a sequence of fields, each a sequence of names
FieldLists ==
    {<< << >> >>,
     << <<"a", "b">>, << >> >>,
     << <<"a">>, <<"a">> >>}

RECURSIVE add_names(_, _)
\* the inner closure of add_params over the names of one field
add_names(s, names) ==
    IF names = << >> \/ ~s.ok THEN s
    ELSE add_names(add_local(s, Some(object_def[Head(names)]), None),
                   Tail(names))

RECURSIVE add_fields_named_only(_, _)
\* add_params counting nothing for a field without names
add_fields_named_only(s, fl) ==
    IF fl = << >> \/ ~s.ok THEN s
    ELSE LET names == Head(fl)
             t == IF Len(names) = 0
                  THEN add_local(s, None, None)
                  ELSE add_names(s, names)
         IN  add_fields_named_only(
                 [t EXCEPT !.ret = Count(s.ret.n + Len(names))], Tail(fl))

RECURSIVE add_fields(_, _)
\* the outer closure of add_params over the fields, summing the counts
add_fields(s, fl) ==
    IF fl = << >> \/ ~s.ok THEN s
    ELSE LET names == Head(fl)
             t == IF Len(names) = 0
                  THEN add_local(s, None, None)
                  ELSE add_names(s, names)
             n == IF Len(names) = 0 THEN 1 ELSE Len(names)
         IN  add_fields([t EXCEPT !.ret = Count(s.ret.n + n)], Tail(fl))

\* FuncCtx::add_params
AddParams(fl) ==
    LET s == add_fields([LocalState EXCEPT !.ret = Count(0)], fl)
        call == [op |-> "add_params", fl |-> fl]
    IN  /\ Building
        /\ entities' = s.entities
        /\ local_alloc' = s.local_alloc
        /\ local_zeros' = s.local_zeros
        /\ stack_temp_types' = s.stack_temp_types
        /\ n_add_local' = s.calls
        /\ n_zero_val' = s.zeros
        /\ IF s.ok THEN Returned(call, s.ret) ELSE Panics(call)
        /\ UNCHANGED <<max_reg_num, code, pos, up_ptrs, uv_entities,
                       consts, ectx, frec>>

\* ------------------------------------------------------------- emission
\* push_inst_pos forgetting the position
push_inst_pos_code_only(cp, i, p) ==
    [code |-> Append(cp.code, i), pos |-> cp.pos]

\* FuncCtx::push_inst_pos on the pair of parallel vectors
push_inst_pos(cp, i, p) ==
    [code |-> Append(cp.code, i), pos |-> Append(cp.pos, p)]

\* the parallel vectors of the FuncCtx
CodePos == [code |-> code, pos |-> pos]

\* update_max_reg taking whatever it is given
update_max_reg_always(cur, max) == max

\* FuncCtx::update_max_reg on max_reg_num
update_max_reg(cur, max) == IF cur < max THEN max ELSE cur

\* operands a caller holds: the constant interned last, the local claimed
\* last, the temporary allocated last
ConstOps == IF Len(consts) = 0 THEN {} ELSE {Const(Len(consts) - 1)}
LocalOps == IF local_alloc = 0 THEN {} ELSE {LocalVar(local_alloc - 1)}
RegOps == IF cur_reg = 0 THEN {} ELSE {Regsiter(cur_reg - 1)}
Operands == ConstOps \cup LocalOps \cup RegOps

\* the image of a HashMap
Values(m) == {m[k] : k \in DOMAIN m}

\* assignment targets a caller passes to emit_assign
Targets ==
    {Blank, ZeroValue}
    \cup {Direct(a) : a \in LocalOps \cup RegOps}
    \cup {UpValue(a) : a \in Values(uv_entities)}
    \cup {Pointee(a) : a \in LocalOps}
    \cup {SliceEntry(c, k) : c \in LocalOps, k \in RegOps}
    \cup {ArrayEntry(c, k) : c \in LocalOps, k \in RegOps}
    \cup {MapEntry(c, k) : c \in LocalOps, k \in RegOps}
    \cup {StructMember(c, k) : c \in RegOps, k \in ConstOps}
    \cup {StructEmbedded(c, k) : c \in LocalOps, k \in ConstOps}
    \cup {PackageMember(c, k) : c \in ConstOps, k \in ConstOps}

\* emit_assign storing the value in the key slot of a composite target
assign_inst_value_first(lhs, rhs) ==
    IF lhs.tag \in {"Direct", "UpValue", "Pointee"}
    THEN with_op_index(IF lhs.tag = "Direct" THEN "ASSIGN"
                       ELSE IF lhs.tag = "UpValue" THEN "STORE_UP_VALUE"
                       ELSE "STORE_POINTER", lhs.a, rhs, Void)
    ELSE with_op_index("STORE_MAP", lhs.a, rhs, lhs.b)

\* the instruction emit_assign builds for a target
assign_inst(lhs, rhs) ==
    CASE lhs.tag = "Direct" -> with_op_index("ASSIGN", lhs.a, rhs, Void)
      [] lhs.tag = "UpValue" ->
            with_op_index("STORE_UP_VALUE", lhs.a, rhs, Void)
      [] lhs.tag = "SliceEntry" ->
            with_op_index("STORE_SLICE", lhs.a, lhs.b, rhs)
      [] lhs.tag = "ArrayEntry" ->
            with_op_index("STORE_ARRAY", lhs.a, lhs.b, rhs)
      [] lhs.tag = "MapEntry" ->
            with_op_index("STORE_MAP", lhs.a, lhs.b, rhs)
      [] lhs.tag = "StructMember" ->
            with_op_index("STORE_STRUCT", lhs.a, lhs.b, rhs)
      [] lhs.tag = "StructEmbedded" ->
            with_op_index("STORE_STRUCT_EMBEDDED", lhs.a, lhs.b, rhs)
      [] lhs.tag = "PackageMember" ->
            with_op_index("STORE_PKG", lhs.a, lhs.b, rhs)
      [] lhs.tag = "Pointee" ->
            with_op_index("STORE_POINTER", lhs.a, rhs, Void)

\* an emitter that left the parallel vectors as cp and returned
Emits(call, cp) ==
    /\ code' = cp.code
    /\ pos' = cp.pos
    /\ Returned(call, Unit)

\* FuncCtx::emit_assign
EmitAssign(lhs, rhs, p) ==
    LET call == [op |-> "emit_assign", lhs |-> lhs, rhs |-> rhs, pos |-> p]
    IN  /\ Building
        /\ IF is_blank(lhs)
           THEN Emits(call, CodePos)
           ELSE IF lhs.tag \in {"Blank", "ZeroValue"}
           THEN Panics(call) /\ UNCHANGED <<code, pos>>
           ELSE Emits(call, push_inst_pos(CodePos, assign_inst(lhs, rhs), p))
        /\ UNCHANGED <<max_reg_num, stack_temp_types, up_ptrs, local_zeros,
                       entities, uv_entities, local_alloc, consts, ectx,
                       frec, hist>>

\* FuncCtx::emit_load_pkg
EmitLoadPkg(d, pkg, index, p) ==
    LET call == [op |-> "emit_load_pkg", d |-> d, pkg |-> pkg,
                 index |-> index, pos |-> p]
        inst == with_op_index("LOAD_PKG", d, pkg, index)
    IN  /\ Building
        /\ Emits(call, push_inst_pos(CodePos, inst, p))
        /\ UNCHANGED <<max_reg_num, stack_temp_types, up_ptrs, local_zeros,
                       entities, uv_entities, local_alloc, consts, ectx,
                       frec, hist>>

\* FuncCtx::emit_closure
EmitClosure(d, s, p) ==
    LET call == [op |-> "emit_closure", d |-> d, s |-> s, pos |-> p]
        inst == with_op_index("CLOSURE", d, s, Void)
    IN  /\ Building
        /\ Emits(call, push_inst_pos(CodePos, inst, p))
        /\ UNCHANGED <<max_reg_num, stack_temp_types, up_ptrs, local_zeros,
                       entities, uv_entities, local_alloc, consts, ectx,
                       frec, hist>>

\* FuncCtx::emit_jump
EmitJump(offset, p) ==
    LET call == [op |-> "emit_jump", offset |-> offset, pos |-> p]
        inst == with_op_index("JUMP", Imm(offset), Void, Void)
    IN  /\ Building
        /\ Emits(call, push_inst_pos(CodePos, inst, p))
        /\ UNCHANGED <<max_reg_num, stack_temp_types, up_ptrs, local_zeros,
                       entities, uv_entities, local_alloc, consts, ectx,
                       frec, hist>>

\* FuncCtx::emit_pre_call
EmitPreCall(cls, stack_base, param_count, p) ==
    LET call == [op |-> "emit_pre_call", cls |-> cls,
                 stack_base |-> stack_base, param_count |-> param_count,
                 pos |-> p]
        inst == with_op_index("PRE_CALL", cls, Imm(stack_base),
                              Imm(param_count))
    IN  /\ Building
        /\ Emits(call, push_inst_pos(CodePos, inst, p))
        /\ UNCHANGED <<max_reg_num, stack_temp_types, up_ptrs, local_zeros,
                       entities, uv_entities, local_alloc, consts, ectx,
                       frec, hist>>

\* CallStyle
CallStyles == {"Default", "Async", "Defer"}

\* the t0 flag emit_call gives a call style
call_flag(style) ==
    CASE style = "Default" -> "Void"
      [] style = "Async" -> "FlagA"
      [] style = "Defer" -> "FlagB"

\* FuncCtx::emit_call
EmitCall(style, p) ==
    LET call == [op |-> "emit_call", style |-> style, pos |-> p]
        inst == [with_op("CALL") EXCEPT !.t0 = call_flag(style)]
    IN  /\ Building
        /\ Emits(call, push_inst_pos(CodePos, inst, p))
        /\ UNCHANGED <<max_reg_num, stack_temp_types, up_ptrs, local_zeros,
                       entities, uv_entities, local_alloc, consts, ectx,
                       frec, hist>>

\* FuncFlag
FuncFlags == {"Default", "PkgCtor", "HasDefer"}

\* the t0 flag emit_return gives the function's flag
return_flag(flag) ==
    CASE flag = "Default" -> "Void"
      [] flag = "PkgCtor" -> "FlagA"
      [] flag = "HasDefer" -> "FlagB"

\* FuncCtx::emit_return; flag is fobjs[self.f_key].flag
EmitReturn(pkg, p, flag) ==
    LET call == [op |-> "emit_return", pkg |-> pkg, pos |-> p,
                 flag |-> flag]
        r == IF pkg = None THEN [pool |-> consts, idx |-> 0]
             ELSE pool_add_const(consts, new_package(pkg.v))
        inst == [with_op("CALL") EXCEPT
                    !.t0 = return_flag(flag),
                    !.d = IF pkg = None THEN Void ELSE Const(r.idx)]
    IN  /\ Building
        /\ consts' = r.pool
        /\ Emits(call, push_inst_pos(CodePos, inst, p))
        /\ UNCHANGED <<max_reg_num, stack_temp_types, up_ptrs, local_zeros,
                       entities, uv_entities, local_alloc, ectx, frec, hist>>

\* the trampoline without its jump back
import_cd_no_loop(pkg_addr, zero_addr) ==
    <<with_op_index("LOAD_PKG", Regsiter(0), pkg_addr, Imm(0)),
      with_op_index("PRE_CALL", Regsiter(0), Imm(0), Imm(0)),
      with_op_t("CALL", Some("Closure"), None),
      with_op_index("ASSIGN", Regsiter(0), zero_addr, Void),
      with_op_index("LOAD_PKG_INIT_FUNC", Regsiter(1), pkg_addr,
                    Regsiter(0)),
      with_op_index("PRE_CALL", Regsiter(1), Imm(0), Imm(0)),
      with_op("CALL")>>

\* the trampoline jumping back one instruction short
import_cd_jump_back_three(pkg_addr, zero_addr) ==
    <<with_op_index("LOAD_PKG", Regsiter(0), pkg_addr, Imm(0)),
      with_op_index("PRE_CALL", Regsiter(0), Imm(0), Imm(0)),
      with_op_t("CALL", Some("Closure"), None),
      with_op_index("ASSIGN", Regsiter(0), zero_addr, Void),
      with_op_index("LOAD_PKG_INIT_FUNC", Regsiter(1), pkg_addr,
                    Regsiter(0)),
      with_op_index("PRE_CALL", Regsiter(1), Imm(0), Imm(0)),
      with_op("CALL"),
      with_op_index("JUMP", Imm(-3), Void, Void)>>

\* the vec cd of emit_import: the trampoline behind the IMPORT instruction
import_cd(pkg_addr, zero_addr) ==
    <<with_op_index("LOAD_PKG", Regsiter(0), pkg_addr, Imm(0)),
      with_op_index("PRE_CALL", Regsiter(0), Imm(0), Imm(0)),
      with_op_t("CALL", Some("Closure"), None),
      with_op_index("ASSIGN", Regsiter(0), zero_addr, Void),
      with_op_index("LOAD_PKG_INIT_FUNC", Regsiter(1), pkg_addr,
                    Regsiter(0)),
      with_op_index("PRE_CALL", Regsiter(1), Imm(0), Imm(0)),
      with_op("CALL"),
      with_op_index("JUMP", Imm(-4), Void, Void)>>

RECURSIVE push_all(_, _, _)
\* the loop of emit_import pushing every instruction of cd with pos
push_all(cp, cd, p) ==
    IF cd = << >> THEN cp
    ELSE push_all(push_inst_pos(cp, Head(cd), p), Tail(cd), p)

\* emit_import asking for one register only
import_max_reg_one == update_max_reg(max_reg_num, 1)

\* the register count emit_import asks for
import_max_reg == update_max_reg(max_reg_num, 2)

\* FuncCtx::emit_import
EmitImport(pkg, p) ==
    LET call == [op |-> "emit_import", pkg |-> pkg, pos |-> p]
        r1 == pool_add_const(consts, new_package(pkg))
        pkg_addr == Const(r1.idx)
        r2 == pool_add_const(r1.pool, new_int32(0))
        zero_addr == Const(r2.idx)
        cd == import_cd(pkg_addr, zero_addr)
        offset == Imm(Len(cd))
        inst == with_op_index("IMPORT", offset, pkg_addr, Void)
    IN  /\ Building
        /\ consts' = r2.pool
        /\ Emits(call, push_all(push_inst_pos(CodePos, inst, p), cd, p))
        /\ max_reg_num' = import_max_reg
        /\ UNCHANGED <<stack_temp_types, up_ptrs, local_zeros, entities,
                       uv_entities, local_alloc, ectx, frec, hist>>

\* instructions a caller builds itself for a jump to a label
LabelInsts ==
    {with_op_index("JUMP", Label(k), a, a) :
        k \in LabelKeys, a \in {Void} \cup ConstOps}

\* FuncCtx::push_inst_pos called directly
PushInstPos(i, p) ==
    LET call == [op |-> "push_inst_pos", i |-> i, pos |-> p]
    IN  /\ Building
        /\ Emits(call, push_inst_pos(CodePos, i, p))
        /\ UNCHANGED <<max_reg_num, stack_temp_types, up_ptrs, local_zeros,
                       entities, uv_entities, local_alloc, consts, ectx,
                       frec, hist>>

\* FuncCtx::inst_mut and the caller's write through the reference it
\* returns: the jump at index i gets its offset; get_mut(i).unwrap() panics
\* when there is no instruction i
InstMut(i, offset) ==
    LET call == [op |-> "inst_mut", i |-> i, offset |-> offset]
    IN  /\ Building
        /\ IF i + 1 \in 1..Len(code)
           THEN /\ code' = [code EXCEPT ![i + 1].d = Imm(offset)]
                /\ Returned(call, Unit)
           ELSE /\ code' = code
                /\ Panics(call)
        /\ UNCHANGED <<max_reg_num, stack_temp_types, pos, up_ptrs,
                       local_zeros, entities, uv_entities, local_alloc,
                       consts, ectx, frec, hist>>

\* FuncCtx::update_max_reg
UpdateMaxReg(max) ==
    LET call == [op |-> "update_max_reg", max |-> max]
    IN  /\ Building
        /\ max_reg_num' = update_max_reg(max_reg_num, max)
        /\ Returned(call, Unit)
        /\ UNCHANGED <<stack_temp_types, code, pos, up_ptrs, local_zeros,
                       entities, uv_entities, local_alloc, consts, ectx,
                       frec, hist>>

\* ---------------------------------------------------------------- ExprCtx
\* ExprCtx::alloc_reg: the register handed out and the new watermark
alloc_reg(cur) == [r |-> Regsiter(cur), cur_reg |-> cur + 1]

\* ExprCtx::alloc_reg
AllocReg ==
    LET a == alloc_reg(cur_reg)
    IN  /\ Building
        /\ cur_reg' = a.cur_reg
        /\ Returned([op |-> "alloc_reg"], a.r)
        /\ UNCHANGED <<fctx, consts, mode, load_addr, frec, hist>>

\* ExprCtx::alloc_reg_as_load_addr
AllocRegAsLoadAddr ==
    LET a == alloc_reg(cur_reg)
    IN  /\ Building
        /\ cur_reg' = a.cur_reg
        /\ load_addr' = a.r
        /\ Returned([op |-> "alloc_reg_as_load_addr"], Unit)
        /\ UNCHANGED <<fctx, consts, mode, frec, hist>>

\* ExprCtx::get_dest
GetDest ==
    LET a == alloc_reg(cur_reg)
        call == [op |-> "get_dest"]
    IN  /\ Building
        /\ IF mode.tag = "Load"
           THEN /\ cur_reg' = a.cur_reg
                /\ load_addr' = a.r
                /\ Returned(call, Dest(a.r, None))
           ELSE IF mode.va.tag = "Direct"
           THEN /\ Returned(call, Dest(mode.va.a, None))
                /\ UNCHANGED <<cur_reg, load_addr>>
           ELSE /\ cur_reg' = a.cur_reg
                /\ Returned(call, Dest(a.r, Some(mode.va)))
                /\ UNCHANGED load_addr
        /\ UNCHANGED <<fctx, consts, mode, frec, hist>>

\* ------------------------------------------------------------ finalization
\* the code holds an operand that is a label
HasLabel ==
    \E i \in 1..Len(code) :
        "Label" \in {code[i].d.tag, code[i].s0.tag, code[i].s1.tag}

\* label tables the driver hands to into_runtime_func: a label names the
\* index of an instruction, or the end of the code; the table is read for
\* Label operands only, so code without any gets the empty one
LabelTables ==
    {EmptyMap}
    \cup {[k \in LabelKeys |-> t] :
             t \in IF HasLabel THEN (0..Len(code)) \cap (0..1) ELSE {}}

\* the code vector resolved by into_runtime_inst, instruction by instruction
resolved(labels) ==
    [i \in 1..Len(code) |->
        into_runtime_inst(code[i], local_alloc, i - 1, labels)]

\* FuncCtx::into_runtime_func: the record takes the four vectors, then the
\* code is resolved and collected; a panic while resolving leaves func.code
\* as it was
IntoRuntimeFunc(labels) ==
    LET rs == resolved(labels)
        call == [op |-> "into_runtime_func", labels |-> labels]
    IN  /\ phase = "building"
        /\ func_stack_temp_types' = func_stack_temp_types \o stack_temp_types
        /\ func_pos' = pos
        /\ func_up_ptrs' = up_ptrs
        /\ func_local_zeros' = local_zeros
        /\ IF \A i \in 1..Len(code) : rs[i].ok
           THEN /\ func_code' = [i \in 1..Len(code) |-> rs[i].inst]
                /\ phase' = "done"
                /\ ret' = Unit
           ELSE /\ func_code' = func_code
                /\ phase' = "panicked"
                /\ ret' = Panicked
        /\ last' = call
        /\ UNCHANGED <<fctx, consts, ectx, nops, budget, hist, vm>>

\* ------------------------------------------------------------ the builder
\* (package, function flag) pairs of a return: a package constructor
\* returns its package
ReturnInputs ==
    {[pkg |-> None, flag |-> f] : f \in FuncFlags}
    \cup {[pkg |-> Some(k), flag |-> "PkgCtor"] : k \in PackageKeys}

\* each operation with its inputs drawn from the sets above
AddConstVarOp ==
    \E e \in ObjKeys, c \in {new_int32(0), new_int32(7)} : AddConstVar(e, c)

AddLocalOp ==
    \E e \in {None} \cup {Some(k) : k \in ObjKeys}, z \in ZeroValTypes :
        AddLocal(e, z)

AddUpvalueOp == \E e \in ObjKeys, uv \in ValueDescs : AddUpvalue(e, uv)

AddParamsOp == \E fl \in FieldLists : AddParams(fl)

EmitAssignOp ==
    \E lhs \in Targets, rhs \in ConstOps, p \in Positions :
        EmitAssign(lhs, rhs, p)

EmitLoadPkgOp ==
    \E d \in RegOps, pkg \in ConstOps,
       index \in {Imm(0)} \cup
                 {PkgMemberIndex(k, id) : k \in PackageKeys,
                                          id \in IdentKeys},
       p \in Positions :
        EmitLoadPkg(d, pkg, index, p)

EmitClosureOp ==
    \E d \in RegOps, s \in ConstOps, p \in Positions : EmitClosure(d, s, p)

EmitJumpOp == \E offset \in {-2, 3}, p \in Positions : EmitJump(offset, p)

EmitPreCallOp ==
    \E cls \in RegOps, n \in {0, 2}, p \in Positions :
        EmitPreCall(cls, cur_reg, n, p)

EmitCallOp == \E style \in CallStyles, p \in Positions : EmitCall(style, p)

EmitReturnOp ==
    \E r \in ReturnInputs, p \in Positions : EmitReturn(r.pkg, p, r.flag)

EmitImportOp == \E pkg \in PackageKeys, p \in Positions : EmitImport(pkg, p)

PushInstPosOp == \E i \in LabelInsts, p \in Positions : PushInstPos(i, p)

UpdateMaxRegOp == \E max \in {cur_reg, 3} : UpdateMaxReg(max)

\* a caller patches the offset of the jump it emitted last
InstMutOp ==
    \E i \in {Len(code) - 1, Len(code)} :
        /\ IF i < Len(code) THEN i >= 0 /\ code[i + 1].op0 = "JUMP"
           ELSE TRUE
        /\ InstMut(i, 1)

IntoRuntimeFuncOp == \E labels \in LabelTables : IntoRuntimeFunc(labels)

Next ==
    \/ AddConstVarOp
    \/ AddLocalOp
    \/ AddUpvalueOp
    \/ AddParamsOp
    \/ EmitAssignOp
    \/ EmitLoadPkgOp
    \/ EmitClosureOp
    \/ EmitJumpOp
    \/ EmitPreCallOp
    \/ EmitCallOp
    \/ EmitReturnOp
    \/ EmitImportOp
    \/ PushInstPosOp
    \/ UpdateMaxRegOp
    \/ InstMutOp
    \/ AllocReg
    \/ AllocRegAsLoadAddr
    \/ GetDest
    \/ IntoRuntimeFuncOp

Spec == Init /\ [][Next]_vars

\* the entity-binding operations alone
NextBind ==
    \/ AddConstVarOp
    \/ AddLocalOp
    \/ AddUpvalueOp
    \/ AddParamsOp

SpecBind == InitBind /\ [][NextBind]_vars

\* ---------------------------------------- a machine running a trampoline
\* values a register holds
NoValue == [k |-> "none"]
IntValue(v) == [k |-> "int", v |-> v]
\* the top-level initializer of a package is function -1, its init
\* functions are numbered from 0
ClosureValue(pkg, f) == [k |-> "closure", pkg |-> pkg, f |-> f]

\* the length of the trampoline with its IMPORT header
ImportLen == 9

\* calls after which the machine gives up
MaxCalls == MaxInits + 2

\* the machine is executing
Running == vm.on /\ ~vm.halted

\* the instruction under the program counter
Fetched == code[vm.pc + 1]

\* the machine after a step that executed op and left the fields in f:
\* it halts when the program counter leaves the trampoline
VmAfter(op, f) ==
    [f EXCEPT !.op = op,
              !.halted = f.pc \notin (vm.base)..(vm.base + ImportLen - 1)]

\* the code is handed to the machine, which starts at an IMPORT
VmStart(base, n, imported) ==
    /\ phase = "building"
    /\ base + 1 \in 1..Len(code)
    /\ code[base + 1].op0 = "IMPORT"
    /\ phase' = "executing"
    /\ vm' = [on |-> TRUE, halted |-> FALSE, base |-> base, pc |-> base,
              regs |-> [r \in 0..1 |-> NoValue], callee |-> NoValue,
              called |-> << >>, n_init |-> n, imported |-> imported,
              op |-> "start"]
    /\ UNCHANGED <<fctx, consts, ectx, frec, nops, budget, hist, last, ret>>

\* a step of the machine that leaves everything but the machine alone
VmStep(op, f) ==
    /\ Running
    /\ Fetched.op0 = op
    /\ vm' = VmAfter(op, f)
    /\ UNCHANGED <<fctx, consts, ectx, frec, phase, nops, budget, hist,
                   last, ret>>

\* IMPORT: skip d instructions when the package was imported before
VmImport ==
    VmStep("IMPORT",
           [vm EXCEPT !.pc = IF vm.imported THEN vm.pc + 1 + Fetched.d.i
                             ELSE vm.pc + 1])

\* LOAD_PKG: the member s1 of the package s0, its top-level initializer
VmLoadPkg ==
    VmStep("LOAD_PKG",
           [vm EXCEPT !.pc = vm.pc + 1,
                      !.regs[Fetched.d.i] =
                          ClosureValue(consts[Fetched.s0.i + 1].pkg, -1)])

\* PRE_CALL: prepare the call of the closure in d
VmPreCall ==
    VmStep("PRE_CALL",
           [vm EXCEPT !.pc = vm.pc + 1, !.callee = vm.regs[Fetched.d.i]])

\* CALL: invoke the prepared closure
VmCall ==
    /\ Running
    /\ Len(vm.called) < MaxCalls
    /\ VmStep("CALL",
              [vm EXCEPT !.pc = vm.pc + 1,
                         !.called = Append(vm.called, vm.callee)])

\* ASSIGN: d takes the constant s0
VmAssign ==
    VmStep("ASSIGN",
           [vm EXCEPT !.pc = vm.pc + 1,
                      !.regs[Fetched.d.i] =
                          IntValue(consts[Fetched.s0.i + 1].n)])

\* LOAD_PKG_INIT_FUNC: load init function s1 of the package s0 into d and
\* increment s1, or skip 3 instructions when s1 is past the init table
VmLoadPkgInitFunc ==
    LET i == vm.regs[Fetched.s1.i]
    IN  VmStep("LOAD_PKG_INIT_FUNC",
               IF i.k = "int" /\ i.v < vm.n_init
               THEN [vm EXCEPT !.pc = vm.pc + 1,
                               !.regs[Fetched.d.i] =
                                   ClosureValue(consts[Fetched.s0.i + 1].pkg,
                                                i.v),
                               !.regs[Fetched.s1.i] = IntValue(i.v + 1)]
               ELSE [vm EXCEPT !.pc = vm.pc + 1 + 3])

\* JUMP: the offset d is relative to the next instruction
VmJump == VmStep("JUMP", [vm EXCEPT !.pc = vm.pc + 1 + Fetched.d.i])

VmStartOp ==
    \E base \in 0..(Len(code) - 1), n \in 0..MaxInits, imported \in BOOLEAN :
        VmStart(base, n, imported)

\* the steps of the machine
VmRun ==
    \/ VmImport
    \/ VmLoadPkg
    \/ VmPreCall
    \/ VmCall
    \/ VmAssign
    \/ VmLoadPkgInitFunc
    \/ VmJump

\* code with imports is built, then a machine runs one of its trampolines
NextVm ==
    \/ EmitImportOp
    \/ EmitCallOp
    \/ VmStartOp
    \/ VmImport
    \/ VmLoadPkg
    \/ VmPreCall
    \/ VmCall
    \/ VmAssign
    \/ VmLoadPkgInitFunc
    \/ VmJump

\* the machine keeps executing while it can
SpecVm == InitVm /\ [][NextVm]_vars /\ WF_vars(VmRun)



\* ================================================================ claims

\* the operand slots of an instruction
Slots == {"d", "s0", "s1"}

\* into_runtime_func has run
Finalized == last.op = "into_runtime_func"

\* the indices i of the Register(i) operands in code
CodeRegs ==
    {code[x[1]][x[2]].i :
        x \in {y \in (1..Len(code)) \X Slots :
                  code[y[1]][y[2]].tag = "Regsiter"}}

\* C1: at finalize, an instruction at index i that carries a Label(k)
\* operand, with the label table mapping k to index p, gets the operand
\* p - i - 1, for forward and backward targets alike, so that advancing the
\* PC by one and adding the operand lands on p.
C1_LabelOffset ==
    phase = "done" =>
        \A n \in 1..Len(code) : \A f \in Slots :
            code[n][f].tag = "Label" =>
                LET p == last.labels[code[n][f].key]
                    i == n - 1
                IN  /\ func_code[n][f] = p - i - 1
                    /\ i + 1 + func_code[n][f] = p

\* a finalized function with a forward and a backward jump to a label
C1_Witness ==
    /\ phase = "done"
    /\ \E n \in 1..Len(code) :
          /\ code[n].d.tag = "Label"
          /\ last.labels[code[n].d.key] > n - 1
    /\ \E n \in 1..Len(code) :
          /\ code[n].d.tag = "Label"
          /\ last.labels[code[n].d.key] <= n - 1

\* C2: in every reachable state of a FuncCtx, whatever emitters were called
\* (emit_assign with any target, Blank included, emit_load_pkg,
\* emit_closure, emit_jump, emit_pre_call, emit_call, emit_return,
\* emit_import, push_inst_pos), code and pos have the same length.
C2_CodePosSameLength == Len(code) = Len(pos)

\* an elided assignment ran on a FuncCtx that holds code
C2_Witness ==
    /\ last.op = "emit_assign"
    /\ last.lhs = Blank
    /\ Len(code) > 0

\* C3 as stated: after all emissions, every Register(i) operand in code
\* satisfies i < max_reg_num.
C3_RegsBelowMax == Finalized => \A i \in CodeRegs : i < max_reg_num

\* C3 amended: a Register(i) operand in code is below max_reg_num or below
\* the watermark cur_reg of the ExprCtx that handed it out; alloc_reg does
\* not raise max_reg_num, so i < max_reg_num holds for every operand once
\* the caller has called update_max_reg(cur_reg), and always holds for the
\* registers 0 and 1 of emit_import.
C3_RegsBelowMaxOrWatermark ==
    /\ \A i \in CodeRegs : i < max_reg_num \/ i < cur_reg
    /\ max_reg_num >= cur_reg => \A i \in CodeRegs : i < max_reg_num

\* a register handed out by the ExprCtx is in code and the caller has
\* raised max_reg_num to the watermark with update_max_reg
C3_Witness ==
    /\ CodeRegs # {}
    /\ cur_reg > 0
    /\ max_reg_num = cur_reg
    /\ last.op \in {"emit_closure", "emit_assign", "emit_load_pkg",
                    "emit_pre_call"}

\* C4 as stated: after finalize every resolved operand obeys the decoder's
\* rule in both directions: negative iff it came from a constant, in
\* [0, local_alloc) iff from a local, >= local_alloc iff from a register.
C4_EncodingBothWays ==
    phase = "done" =>
        \A n \in 1..Len(code) : \A f \in Slots :
            LET v == func_code[n][f]
                tag == code[n][f].tag
            IN  /\ v < 0 <=> tag = "Const"
                /\ (0 <= v /\ v < local_alloc) <=> tag = "LocalVar"
                /\ v >= local_alloc <=> tag = "Regsiter"

\* C4 amended: the rule holds in both directions among the operands that
\* came from a constant, a local or a register (a constant resolves below
\* 0, a local into [0, local_alloc), a register to local_alloc or above);
\* an operand that came from a Label or a PkgMemberIndex resolves to an
\* offset or a member index that may lie in any of the three ranges.
C4_EncodingOfFrameOperands ==
    phase = "done" =>
        \A n \in 1..Len(code) : \A f \in Slots :
            LET v == func_code[n][f]
                tag == code[n][f].tag
            IN  tag \in {"Const", "LocalVar", "Regsiter"} =>
                    /\ v < 0 <=> tag = "Const"
                    /\ (0 <= v /\ v < local_alloc) <=> tag = "LocalVar"
                    /\ v >= local_alloc <=> tag = "Regsiter"

\* a finalized instruction with a constant, a local and a register operand
C4_Witness ==
    /\ phase = "done"
    /\ \E n \in 1..Len(code) :
          {code[n][f].tag : f \in Slots} = {"Const", "LocalVar", "Regsiter"}

\* the instructions emit_jump and emit_pre_call push
ImmInsts ==
    {i \in 1..Len(code) :
        \/ /\ code[i].op0 = "JUMP"
           /\ code[i].d.tag = "Imm"
        \/ /\ code[i].op0 = "PRE_CALL"
           /\ code[i].s0.tag = "Imm"
           /\ code[i].s1.tag = "Imm"}

\* C5: Imm(i) resolves to i: a function whose code was produced by emit_jump
\* or emit_pre_call finalizes without a fatal error, and the Imm slots of
\* the resulting instructions hold the offset, the stack base and the
\* parameter count that were passed.
C5_ImmResolves ==
    (Finalized /\ ImmInsts # {} /\ ImmInsts = 1..Len(code)) =>
        /\ phase = "done"
        /\ \A n \in ImmInsts : \A f \in Slots :
              code[n][f].tag = "Imm" => func_code[n][f] = code[n][f].i

\* C6: at finalize Const(i) resolves to -i-1, LocalVar(i) to i and
\* Register(i) to local_alloc + i, local_alloc being the number of add_local
\* calls made before finalize (those of add_params included).
C6_Resolution ==
    /\ local_alloc = n_add_local
    /\ phase = "done" =>
          \A n \in 1..Len(code) : \A f \in Slots :
              LET a == code[n][f]
                  v == func_code[n][f]
              IN  /\ a.tag = "Const" => v = -a.i - 1
                  /\ a.tag = "LocalVar" => v = a.i
                  /\ a.tag = "Regsiter" => v = n_add_local + a.i

\* emit_assign(MapEntry(LocalVar(0), Register(0)), Const(1)) after one
\* add_local was finalized to STORE_MAP 0, 1, -2
C6_Witness ==
    /\ phase = "done"
    /\ n_add_local = 1
    /\ code = <<with_op_index("STORE_MAP", LocalVar(0), Regsiter(0),
                              Const(1))>>
    /\ func_code[1].op0 = "STORE_MAP"
    /\ func_code[1].d = 0
    /\ func_code[1].s0 = 1
    /\ func_code[1].s1 = -2

\* a builder operation named op was called in this step
Called(op) == last'.op = op /\ nops' = nops + 1

\* what a step may do to the up-value tables
C7_Step ==
    /\ \A e \in DOMAIN uv_entities :
          /\ e \in DOMAIN uv_entities'
          /\ uv_entities'[e] = uv_entities[e]
    /\ Len(up_ptrs') = Cardinality(DOMAIN uv_entities')
    /\ IF Called("add_upvalue")
       THEN LET e == last'.entity
            IN  /\ ret' = UpValue(uv_entities'[e])
                /\ ret'.a.tag = "Imm"
                /\ IF e \in DOMAIN uv_entities
                   THEN up_ptrs' = up_ptrs /\ uv_entities' = uv_entities
                   ELSE up_ptrs' = Append(up_ptrs, last'.uv)
       ELSE up_ptrs' = up_ptrs

\* C7: add_upvalue is idempotent per object: the slot bound to an object
\* never changes, every call for the object returns UpValue(Imm(i)) with
\* that slot, and up_ptrs gains one entry on the first call for an object
\* and none on any other call, whatever capture descriptor is passed.
C7_AddUpvalueIdempotent == [][C7_Step]_vars

\* add_upvalue was called again for an object, with another descriptor,
\* after a call for another object
C7_Witness ==
    /\ last.op = "add_upvalue"
    /\ Cardinality(DOMAIN uv_entities) = 2
    /\ ret = UpValue(Imm(0))
    /\ up_ptrs[1] # last.uv
    /\ nops = 3

\* what a step may do to the entities table
C8_Step ==
    /\ (Called("add_const_var") /\ last'.entity \in DOMAIN entities) =>
          ret' = Panicked /\ phase' = "panicked"
    /\ (/\ Called("add_local")
        /\ last'.entity # None
        /\ last'.entity.v \in DOMAIN entities) =>
          ret' = Panicked /\ phase' = "panicked"
    /\ (/\ Called("add_params")
        /\ \E n \in 1..Len(last'.fl) : \E m \in 1..Len(last'.fl[n]) :
              object_def[last'.fl[n][m]] \in DOMAIN entities) =>
          ret' = Panicked /\ phase' = "panicked"
    /\ phase' = "building" =>
          \A e \in DOMAIN entities :
              /\ e \in DOMAIN entities'
              /\ entities'[e] = entities[e]

\* C8: entities binds an object at most once: once add_const_var or
\* add_local (called directly or by add_params) has bound an object, a later
\* add_const_var or add_local for the same object panics instead of
\* returning an address, and no call that returns changes a binding.
C8_BindOnce == [][C8_Step]_vars

\* add_local failed on an object that add_const_var had bound
C8_Witness ==
    /\ last.op = "add_local"
    /\ ret = Panicked
    /\ phase = "panicked"
    /\ Len(consts) = 3
    /\ local_alloc = 0

\* the opcodes emit_import pushes, in order
ImportOps ==
    <<"IMPORT", "LOAD_PKG", "PRE_CALL", "CALL", "ASSIGN",
      "LOAD_PKG_INIT_FUNC", "PRE_CALL", "CALL", "JUMP">>

\* what a step that called emit_import did
C9_Step ==
    Called("emit_import") =>
        LET n == Len(code)
        IN  /\ Len(code') = n + Len(ImportOps)
            /\ Len(ImportOps) = 9
            /\ \A k \in 1..n : code'[k] = code[k] /\ pos'[k] = pos[k]
            /\ \A k \in 1..9 :
                  /\ code'[n + k].op0 = ImportOps[k]
                  /\ pos'[n + k] = last'.pos
            /\ Len(pos') = n + 9
            /\ code'[n + 1].d = Imm(8)
            /\ code'[n + 1].s0.tag = "Const"
            /\ consts'[code'[n + 1].s0.i + 1] = new_package(last'.pkg)
            /\ max_reg_num' >= 2
            /\ max_reg_num' >= max_reg_num

\* C9: emit_import(pkg) appends exactly 9 instructions and 9 positions equal
\* to the given pos: IMPORT with d = Imm(8) and s0 = the package constant,
\* then LOAD_PKG, PRE_CALL, CALL, ASSIGN, LOAD_PKG_INIT_FUNC, PRE_CALL, CALL
\* and JUMP; afterwards max_reg_num >= 2 whatever it was before.
C9_Import == [][C9_Step]_vars

\* emit_import ran on a FuncCtx that had already asked for three registers
C9_Witness ==
    /\ last.op = "emit_import"
    /\ Len(code) = 9
    /\ max_reg_num = 3

\* the instructions that leave all three operand slots unused
VoidInsts ==
    {i \in 1..Len(code) : \A f \in Slots : code[i][f] = Void}

\* C10: emit_call(style) followed by finalize yields one CALL instruction
\* whose t0 is Void for Default, FlagA for Async and FlagB for Defer and
\* whose unused operand slots d, s0, s1 resolve to 0; finalize does not fail
\* on instructions that leave operand slots unused.
C10_CallResolves ==
    /\ last.op = "emit_call" =>
          /\ code[Len(code)].op0 = "CALL"
          /\ code[Len(code)].t0 =
                (CASE last.style = "Default" -> "Void"
                   [] last.style = "Async" -> "FlagA"
                   [] last.style = "Defer" -> "FlagB")
          /\ Len(code) \in VoidInsts
    /\ (Finalized /\ Len(code) = 1 /\ VoidInsts = {1}) =>
          /\ phase = "done"
          /\ func_code =
                <<[op0 |-> code[1].op0, op1 |-> code[1].op1,
                   t0 |-> code[1].t0, t1 |-> code[1].t1,
                   d |-> 0, s0 |-> 0, s1 |-> 0]>>

\* what a step that called emit_assign with the Blank target did
C11_Step ==
    (Called("emit_assign") /\ last'.lhs = Blank) =>
        /\ code' = code
        /\ pos' = pos
        /\ local_alloc' = local_alloc
        /\ max_reg_num' = max_reg_num
        /\ entities' = entities
        /\ uv_entities' = uv_entities
        /\ up_ptrs' = up_ptrs
        /\ local_zeros' = local_zeros
        /\ stack_temp_types' = stack_temp_types
        /\ consts' = consts
        /\ ret' = Unit
        /\ phase' = phase

\* C11: emit_assign with the Blank target is a no-op: for every rhs and
\* pos it returns leaving code, pos, local_alloc, max_reg_num, entities,
\* the up-value tables and the zero/type vectors unchanged.
C11_BlankIsNoOp == [][C11_Step]_vars

\* an assignment to Blank ran after emit_import had filled the FuncCtx
C11_Witness ==
    /\ last.op = "emit_assign"
    /\ last.lhs = Blank
    /\ Len(code) = 9
    /\ max_reg_num = 2

\* the store opcode of each kind of assignment target
StoreOps ==
    [Direct |-> "ASSIGN", UpValue |-> "STORE_UP_VALUE",
     Pointee |-> "STORE_POINTER", SliceEntry |-> "STORE_SLICE",
     ArrayEntry |-> "STORE_ARRAY", MapEntry |-> "STORE_MAP",
     StructMember |-> "STORE_STRUCT",
     StructEmbedded |-> "STORE_STRUCT_EMBEDDED",
     PackageMember |-> "STORE_PKG"]

\* what a step that called emit_assign with a target other than Blank did
C12_Step ==
    (Called("emit_assign") /\ last'.lhs # Blank) =>
        LET lhs == last'.lhs
            rhs == last'.rhs
            n == Len(code)
        IN  IF lhs = ZeroValue
            THEN /\ ret' = Panicked
                 /\ phase' = "panicked"
                 /\ code' = code
                 /\ pos' = pos
            ELSE /\ ret' = Unit
                 /\ Len(code') = n + 1
                 /\ Len(pos') = n + 1
                 /\ \A k \in 1..n : code'[k] = code[k] /\ pos'[k] = pos[k]
                 /\ pos'[n + 1] = last'.pos
                 /\ lhs.tag \in DOMAIN StoreOps
                 /\ code'[n + 1].op0 = StoreOps[lhs.tag]
                 /\ IF lhs.tag \in {"Direct", "UpValue", "Pointee"}
                    THEN /\ code'[n + 1].d = lhs.a
                         /\ code'[n + 1].s0 = rhs
                    ELSE /\ code'[n + 1].d = lhs.a
                         /\ code'[n + 1].s0 = lhs.b
                         /\ code'[n + 1].s1 = rhs

\* C12: for every target other than Blank and ZeroValue, emit_assign
\* appends exactly one instruction whose opcode and operands follow from
\* the target: Direct, UpValue and Pointee give ASSIGN, STORE_UP_VALUE and
\* STORE_POINTER with (d, s0) = (target, rhs); the six composite targets
\* give their STORE_* opcode with (d, s0, s1) = (container, key, rhs). A
\* ZeroValue target is a fatal error and appends nothing.
C12_AssignLayout == [][C12_Step]_vars

\* a store into a struct member was appended after an earlier instruction
C12_Witness ==
    /\ last.op = "emit_assign"
    /\ last.lhs.tag = "StructMember"
    /\ Len(code) = 2
    /\ code[2] = with_op_index("STORE_STRUCT", last.lhs.a, last.lhs.b,
                               last.rhs)

\* C13: the function record is written by into_runtime_func only and never
\* partially: while the FuncCtx is being built, and after a finalize that
\* failed on an operand it cannot resolve, code, pos, up_ptrs, local_zeros
\* and stack_temp_types of the record are as they were at construction;
\* after a finalize that succeeded all five have been written.
C13_NoPartialWrite ==
    /\ phase # "done" =>
          /\ func_code = << >>
          /\ func_pos = << >>
          /\ func_up_ptrs = << >>
          /\ func_local_zeros = << >>
          /\ func_stack_temp_types = << >>
    /\ phase = "done" =>
          /\ Len(func_code) = Len(code)
          /\ func_pos = pos
          /\ func_up_ptrs = up_ptrs
          /\ func_local_zeros = local_zeros
          /\ func_stack_temp_types = stack_temp_types

\* the objects bound to a local slot
LocalEntities == {e \in DOMAIN entities : entities[e].tag = "LocalVar"}

\* the slot counters and the zero/type vectors agree with the calls made
C14_Counts ==
    /\ local_alloc = n_add_local
    /\ Len(local_zeros) = n_zero_val
    /\ Len(stack_temp_types) = n_zero_val
    /\ phase = "building" =>
          /\ \A e \in LocalEntities :
                0 <= entities[e].i /\ entities[e].i < local_alloc
          /\ \A e1, e2 \in LocalEntities :
                entities[e1] = entities[e2] => e1 = e2

\* what a step that called add_local and returned did
C14_Step ==
    (Called("add_local") /\ ret' # Panicked) =>
        /\ ret' = Direct(LocalVar(n_add_local))
        /\ local_alloc' = n_add_local + 1
        /\ n_add_local' = n_add_local + 1
        /\ last'.entity # None => entities'[last'.entity.v] = ret'.a

\* C14: add_local claims the next slot: the k-th add_local call that
\* returns (k from 0, calls made by add_params included) returns
\* Direct(LocalVar(k)) and leaves local_alloc = k + 1, so distinct calls get
\* distinct slots; local_zeros and stack_temp_types always have the same
\* length, the number of add_local calls that supplied a zero value/type.
C14_NextSlot == [](C14_Counts) /\ [][C14_Step]_vars

\* the third add_local returned slot 2; two of the three supplied a zero
\* value and type, and one of them bound an object
C14_Witness ==
    /\ last.op = "add_local"
    /\ ret = Direct(LocalVar(2))
    /\ n_add_local = 3
    /\ n_zero_val = 2
    /\ LocalEntities # {}

\* the locals a field of a parameter list takes
FieldWidth(names) == IF Len(names) = 0 THEN 1 ELSE Len(names)

RECURSIVE WidthOf(_)
\* the locals a parameter list takes
WidthOf(fl) ==
    IF fl = << >> THEN 0 ELSE FieldWidth(Head(fl)) + WidthOf(Tail(fl))

\* what a step that called add_params and returned did
C15_Step ==
    (Called("add_params") /\ ret' # Panicked) =>
        LET fl == last'.fl
        IN  /\ ret' = Count(local_alloc' - local_alloc)
            /\ ret'.n = WidthOf(fl)
            /\ \A j \in 1..Len(fl) : \A m \in 1..Len(fl[j]) :
                  entities'[object_def[fl[j][m]]] =
                      LocalVar(local_alloc + WidthOf(SubSeq(fl, 1, j - 1))
                               + m - 1)
            /\ DOMAIN entities' =
                  DOMAIN entities
                  \cup UNION {{object_def[fl[j][m]] : m \in 1..Len(fl[j])} :
                                 j \in 1..Len(fl)}

\* C15: add_params allocates one local per parameter name and one local
\* for each field without names, binds each named parameter's object to its
\* slot in declaration order, and returns the increase of local_alloc, the
\* sum over the fields of max(1, number of names).
C15_AddParams == [][C15_Step]_vars

\* add_params took three locals for two named parameters and an anonymous
\* field, after a local had been claimed
C15_Witness ==
    /\ last.op = "add_params"
    /\ ret = Count(3)
    /\ local_alloc = 4
    /\ entities["x"] = LocalVar(1)
    /\ entities["y"] = LocalVar(2)

\* the closures the trampoline of package pkg invokes for n init functions:
\* the top-level initializer, then every init function in table order
InitOrder(pkg, n) ==
    [i \in 1..(n + 1) |-> ClosureValue(pkg, i - 2)]

\* the package the trampoline under execution imports
Imported == consts[code[vm.base + 1].s0.i + 1].pkg

\* what holds while and after a trampoline is executed
C16_Safe ==
    vm.on =>
        /\ vm.op = "JUMP" =>
              /\ vm.pc = vm.base + 5
              /\ code[vm.pc + 1].op0 = "LOAD_PKG_INIT_FUNC"
        /\ vm.pc \in (vm.base)..(vm.base + ImportLen)
        /\ Len(vm.called) <= vm.n_init + 1
        /\ vm.called = SubSeq(InitOrder(Imported, vm.n_init), 1,
                              Len(vm.called))
        /\ vm.halted =>
              /\ vm.pc = vm.base + ImportLen
              /\ vm.op \in {"IMPORT", "LOAD_PKG_INIT_FUNC"}
              /\ vm.op = "IMPORT" <=> vm.imported
              /\ vm.called = IF vm.imported THEN << >>
                             ELSE InitOrder(Imported, vm.n_init)

\* C16: a machine that takes every offset relative to the next
\* instruction, and whose LOAD_PKG_INIT_FUNC loads init function reg0 into
\* reg1 and increments reg0 or skips 3 instructions past the init table,
\* executes the 9 instructions of emit_import so that, for any number of
\* init functions, the top-level initializer is invoked once, then each
\* init function once in table order; JUMP(-4) lands on LOAD_PKG_INIT_FUNC,
\* the loop terminates, and its exit lands on the first instruction after
\* the trampoline, where IMPORT lands by skipping d = 8.
C16_Trampoline == [](C16_Safe) /\ (vm.on ~> (vm.on /\ vm.halted))

\* the second trampoline of the code ran to its end for a package with two
\* init functions
C16_Witness ==
    /\ vm.on
    /\ vm.halted
    /\ vm.base = 9
    /\ vm.n_init = 2
    /\ Len(vm.called) = 3
    /\ vm.op = "LOAD_PKG_INIT_FUNC"

\* what a step may do to the ExprCtx
C17_Step ==
    /\ mode' = mode
    /\ (mode.tag = "Load" /\ load_addr # Void) => load_addr' = load_addr
    /\ load_addr' # load_addr => load_addr'.tag = "Regsiter"
    /\ (Called("get_dest") /\ mode.tag = "Assign") =>
          /\ load_addr' = load_addr
          /\ IF mode.va.tag = "Direct"
             THEN /\ ret' = Dest(mode.va.a, None)
                  /\ cur_reg' = cur_reg
             ELSE /\ ret' = Dest(Regsiter(cur_reg), Some(mode.va))
                  /\ cur_reg' = cur_reg + 1

\* C17: in an ExprCtx mode is fixed at construction and load_addr, Void at
\* first, is set exactly once: in Load mode it becomes a register the first
\* time a destination is needed and keeps that value over any later
\* get_dest, alloc_reg or alloc_reg_as_load_addr call; in Assign mode
\* get_dest never sets it, returns d without advancing cur_reg for
\* Assign(Direct(d)), and advances cur_reg by one and returns that register
\* with the target for a composite target.
C17_LoadAddrSetOnce == [][C17_Step]_vars

\* the kind of use an emit_call or emit_return call stands for
KindOf(call) ==
    IF call.op = "emit_call"
    THEN [use |-> "call", of |-> call.style]
    ELSE [use |-> "return", of |-> call.flag]

\* the opcode and flag of an instruction
OpFlag(inst) == [op0 |-> inst.op0, t0 |-> inst.t0]

\* what a step that emitted a call or a return right after another did
C18_Step ==
    (/\ last.op \in {"emit_call", "emit_return"}
     /\ last'.op \in {"emit_call", "emit_return"}
     /\ nops' = nops + 1
     /\ KindOf(last') # KindOf(last)) =>
        OpFlag(code'[Len(code')]) # OpFlag(code[Len(code)])

\* C18: the t0 flag of a CALL instruction tells the kinds of use apart
\* (Default, Async and Defer call; return from a Default, a PkgCtor and a
\* HasDefer function): two instructions emitted by emit_call or emit_return
\* for different kinds never have the same (op0, t0) pair.
C18_FlagsDistinguish == [][C18_Step]_vars

\* h1 holds every binding of h0
Extends(h1, h0) ==
    \A k \in DOMAIN h0 : k \in DOMAIN h1 /\ h1[k] = h0[k]

\* what a step that did not panic may do to the FuncCtx
C19_Step ==
    phase' # "panicked" =>
        /\ Len(code') >= Len(code)
        /\ Len(pos') >= Len(pos)
        /\ Len(up_ptrs') >= Len(up_ptrs)
        /\ Len(local_zeros') >= Len(local_zeros)
        /\ Len(stack_temp_types') >= Len(stack_temp_types)
        /\ Cardinality(DOMAIN entities') >= Cardinality(DOMAIN entities)
        /\ Cardinality(DOMAIN uv_entities')
              >= Cardinality(DOMAIN uv_entities)
        /\ SubSeq(up_ptrs', 1, Len(up_ptrs)) = up_ptrs
        /\ Extends(entities', entities)
        /\ Extends(uv_entities', uv_entities)
        /\ local_alloc' >= local_alloc
        /\ max_reg_num' >= max_reg_num
        /\ Called("update_max_reg") =>
              max_reg_num' = IF last'.max <= max_reg_num THEN max_reg_num
                             ELSE last'.max

Captured(ptrs, uvs, e) == ptrs[uvs[e].i + 1]

\* the slots agree with the capture vector
C20_Slots ==
    /\ Cardinality(DOMAIN uv_entities) = Len(up_ptrs)
    /\ \A e \in DOMAIN uv_entities :
          /\ uv_entities[e].tag = "Imm"
          /\ 0 <= uv_entities[e].i
          /\ uv_entities[e].i < Len(up_ptrs)
    /\ \A e1, e2 \in DOMAIN uv_entities :
          uv_entities[e1] = uv_entities[e2] => e1 = e2

\* the slot of an object holds the descriptor of the first call for it
C20_Step ==
    /\ \A e \in DOMAIN uv_entities :
          Captured(up_ptrs', uv_entities', e)
              = Captured(up_ptrs, uv_entities, e)
    /\ (Called("add_upvalue") /\ last'.entity \notin DOMAIN uv_entities) =>
          Captured(up_ptrs', uv_entities', last'.entity) = last'.uv

\* C20: up-value slots are consistent with the capture vector in every
\* reachable state: uv_entities and up_ptrs have the same size, the slot
\* Imm(i) of an object satisfies 0 <= i < |up_ptrs|, distinct objects have
\* distinct slots, and up_ptrs[i] is the descriptor passed on the first
\* add_upvalue call for the object; descriptors of later calls for it are
\* discarded.
C20_UpvalueSlots == [](C20_Slots) /\ [][C20_Step]_vars

\* two objects were captured, then the second call for the object in slot
\* 1 passed another descriptor, which was discarded
C20_Witness ==
    /\ last.op = "add_upvalue"
    /\ last.entity \in DOMAIN uv_entities
    /\ uv_entities[last.entity] = Imm(1)
    /\ Len(up_ptrs) = 2
    /\ up_ptrs[2] # last.uv
    /\ up_ptrs[1] = last.uv
    /\ nops = 3

====
